---- MODULE Spec2Model ----
(***************************************************************************)
(* EnergyMonitor (src/src/App.jsx): the record store of useDataStore and   *)
(* the calculation helpers it is built on.                                 *)
(*                                                                         *)
(* JavaScript values that flow through the form and the records are        *)
(* modelled as tagged values [tag, n]:                                     *)
(*   "null"    null                                                        *)
(*   "empty"   the empty string ""                                         *)
(*   "numstr"  a numeric string such as "150" (what an <input> yields)     *)
(*   "num"     a JS number                                                 *)
(*   "nan"     the JS number NaN                                           *)
(***************************************************************************)
EXTENDS Integers, Sequences, FiniteSets, TLC

\* ------------------------------------------------- constants and bounds
\* YEARS[0]
FirstYear == 2023
StartMonth == 11
NumPeriods == 3
MaxReading == 2
MaxRecords == 2
MaxId == 2

\* the k-th month counted from StartMonth of FirstYear, as <<year, month>>
PeriodAt(k) ==
  LET m == StartMonth - 1 + k IN <<FirstYear + (m \div 12), (m % 12) + 1>>

\* the periods the year and month selects are set to: consecutive months
\* around a turn of the year
Periods == {PeriodAt(k) : k \in 0..(NumPeriods - 1)}

\* ------------------------------------------------------------ JS values
Null == [tag |-> "null", n |-> 0]
Empty == [tag |-> "empty", n |-> 0]
NaN == [tag |-> "nan", n |-> 0]
Num(k) == [tag |-> "num", n |-> k]
NumStr(k) == [tag |-> "numstr", n |-> k]

\* Number(v)
ToNumber(v) ==
  CASE v.tag = "null" -> Num(0)
    [] v.tag = "empty" -> Num(0)
    [] v.tag = "numstr" -> Num(v.n)
    [] v.tag = "num" -> v
    [] OTHER -> NaN

\* a - b on JS numbers
JsSub(a, b) == IF a.tag = "nan" \/ b.tag = "nan" THEN NaN ELSE Num(a.n - b.n)

\* a + b on JS numbers
JsAdd(a, b) == IF a.tag = "nan" \/ b.tag = "nan" THEN NaN ELSE Num(a.n + b.n)

\* Math.max(0, a)
MathMax0(a) == IF a.tag = "nan" THEN NaN ELSE IF a.n > 0 THEN a ELSE Num(0)

\* Number(v) || 0
NumberOrZero(v) ==
  LET x == ToNumber(v) IN IF x.tag = "nan" \/ x.n = 0 THEN Num(0) ELSE x

\* v !== ""
NotEmptyString(v) == v.tag # "empty"

\* v != null
NotNull(v) == v.tag # "null"

\* ------------------------------------------------- calculation helpers
\* the comparator of the sort in getPreviousReading: a sorts no later than b
PeriodLeq(a, b) ==
  IF a.year # b.year THEN a.year - b.year <= 0 ELSE a.month - b.month <= 0

RECURSIVE SortByPeriod(_)
\* [...].sort(cmp): a stable sort by (year, month) ascending
SortByPeriod(s) ==
  IF s = <<>> THEN <<>>
  ELSE LET rest == SortByPeriod(SubSeq(s, 1, Len(s) - 1))
           r == s[Len(s)]
           keep == {i \in 1..Len(rest) : PeriodLeq(rest[i], r)}
           k == IF keep = {} THEN 0 ELSE CHOOSE i \in keep : \A j \in keep : j <= i
       IN SubSeq(rest, 1, k) \o <<r>> \o SubSeq(rest, k + 1, Len(rest))

\* excludeId = null is modelled as the id 0, which no record carries
NoId == 0

getPreviousReading_noExclude(recs, year, month, stateField, excludeId) ==
  LET Before(r) == r.year < year \/ (r.year = year /\ r.month < month)
      prev == SelectSeq(SortByPeriod(recs), Before)
  IN IF Len(prev) > 0 THEN prev[Len(prev)][stateField] ELSE Null

getPreviousReading_first(recs, year, month, stateField, excludeId) ==
  LET Keep(r) == r.id # excludeId
      Before(r) == r.year < year \/ (r.year = year /\ r.month < month)
      prev == SelectSeq(SortByPeriod(SelectSeq(recs, Keep)), Before)
  IN IF Len(prev) > 0 THEN prev[1][stateField] ELSE Null

getPreviousReading(recs, year, month, stateField, excludeId) ==
  LET Keep(r) == r.id # excludeId
      Before(r) == r.year < year \/ (r.year = year /\ r.month < month)
      sorted == SortByPeriod(SelectSeq(recs, Keep))
      prev == SelectSeq(sorted, Before)
  IN IF Len(prev) > 0 THEN prev[Len(prev)][stateField] ELSE Null

calcConsumption_noClamp(currentState, prevState) ==
  IF prevState.tag = "null" \/ currentState.tag = "null" \/ currentState.tag = "empty"
  THEN Num(0)
  ELSE JsSub(ToNumber(currentState), ToNumber(prevState))

calcConsumption(currentState, prevState) ==
  IF prevState.tag = "null" \/ currentState.tag = "null" \/ currentState.tag = "empty"
  THEN Num(0)
  ELSE MathMax0(JsSub(ToNumber(currentState), ToNumber(prevState)))

\* ------------------------------------------------------------ the store
\* A call of addRecord, updateRecord, deleteRecord or importData computes the
\* new array and sets it in one step; lastOp, lastFd, lastId, pre and result
\* hold the call's arguments, the array it read and its return value until the
\* call returns (settle), after which the next call is taken.
VARIABLES
  records,     \* useDataStore: the records state, in array order
  nextId,      \* genId: the ids handed out so far are 1..nextId-1
  lastOp,      \* the operation that produced this state
  lastFd,      \* the form data fd (or imported data) it was called with
  lastId,      \* the id argument of updateRecord / deleteRecord
  pre,         \* the records the operation was called on
  result,      \* what the operation returned
  local,       \* localStorage: the electricity_records item
  remote,      \* the records the sheet behind SHEETS_API_URL holds
  inflight,    \* persist: the POST bodies sent and not yet answered
  syncError,   \* useDataStore: the syncError state
  loading,     \* useDataStore: the loading state
  loadPc,      \* where the load effect's async function stands
  lastWrite,   \* how the latest POST of persist ended
  probe,       \* the arguments a helper is called with on its own
  answer       \* what the helper returned for them

storeVars ==
  <<records, nextId, lastOp, lastFd, lastId, pre, result, local, remote,
    inflight, syncError, loading, loadPc, lastWrite>>

vars == <<storeVars, probe, answer>>

NoForm ==
  [year |-> 0, month |-> 0, householdState |-> Null, carState |-> Null,
   bojlerConsumption |-> Null, householdConsumptionOverride |-> Null,
   carConsumptionOverride |-> Null]

NoRecord ==
  [id |-> NoId, year |-> 0, month |-> 0, householdState |-> Null,
   householdConsumption |-> Null, carState |-> Null, carConsumption |-> Null,
   bojlerConsumption |-> Null, totalConsumption |-> Null]

\* addRecord resolves to rec on insert and to {record, merged: true} on merge
NoResult == [record |-> NoRecord, merged |-> FALSE]

\* What the inputs of the form hold: "" or the number typed, as a string.
HouseholdTyped == {Empty} \cup {NumStr(k) : k \in 1..MaxReading}
CarTyped == {Empty, NumStr(1)}
BojlerTyped == {Empty, NumStr(1)}
\* the override inputs: null unless a number is typed
Overrides == {Null, NumStr(MaxReading + 1)}

\* the form with the year and month selects set to period p
Form(p, hState, cState, bojler, hOverride, cOverride) ==
  [year |-> p[1], month |-> p[2], householdState |-> hState, carState |-> cState,
   bojlerConsumption |-> bojler, householdConsumptionOverride |-> hOverride,
   carConsumptionOverride |-> cOverride]

\* forms submitted without overrides
PlainForms ==
  {Form(p, h, c, b, Null, Null) :
     p \in Periods, h \in HouseholdTyped, c \in CarTyped, b \in BojlerTyped}

\* forms submitted with any combination of overrides
OverrideForms ==
  {Form(p, h, NumStr(1), b, ho, co) :
     p \in Periods, h \in {Empty, NumStr(MaxReading)}, b \in BojlerTyped,
     ho \in Overrides, co \in Overrides}

\* records.find(r => r.year === year && r.month === month): index, 0 if none
findExisting_none(recs, year, month) == 0

findExisting(recs, year, month) ==
  LET hit == {i \in 1..Len(recs) : recs[i].year = year /\ recs[i].month = month}
  IN IF hit = {} THEN 0 ELSE CHOOSE i \in hit : \A j \in hit : i <= j

consumptionOf_ignoreOverride(override, state, prevState) ==
  calcConsumption(state, prevState)

\* override != null ? Number(override) : calcConsumption(state, prevState)
consumptionOf(override, state, prevState) ==
  IF NotNull(override) THEN ToNumber(override) ELSE calcConsumption(state, prevState)

mergedRecord_overwrite(recs, r, existing, fd) ==
  LET prevH == getPreviousReading(recs, fd.year, fd.month, "householdState", existing.id)
      prevC == getPreviousReading(recs, fd.year, fd.month, "carState", existing.id)
      hC == consumptionOf(fd.householdConsumptionOverride, fd.householdState, prevH)
      cC == consumptionOf(fd.carConsumptionOverride, fd.carState, prevC)
  IN [r EXCEPT !.householdState = NumberOrZero(fd.householdState),
               !.householdConsumption = hC,
               !.carState = NumberOrZero(fd.carState),
               !.carConsumption = cC,
               !.bojlerConsumption = NumberOrZero(fd.bojlerConsumption),
               !.totalConsumption = JsAdd(hC, cC)]

\* the merge path of addRecord: what replaces the record r whose id is
\* existing.id
mergedRecord(recs, r, existing, fd) ==
  LET hState == IF NotEmptyString(fd.householdState)
                THEN fd.householdState ELSE existing.householdState
      cState == IF NotEmptyString(fd.carState) THEN fd.carState ELSE existing.carState
      bojler == IF NotEmptyString(fd.bojlerConsumption)
                THEN fd.bojlerConsumption ELSE existing.bojlerConsumption
      prevH == getPreviousReading(recs, fd.year, fd.month, "householdState", existing.id)
      prevC == getPreviousReading(recs, fd.year, fd.month, "carState", existing.id)
      hC == consumptionOf(fd.householdConsumptionOverride, hState, prevH)
      cC == consumptionOf(fd.carConsumptionOverride, cState, prevC)
  IN [r EXCEPT !.householdState = NumberOrZero(hState),
               !.householdConsumption = hC,
               !.carState = NumberOrZero(cState),
               !.carConsumption = cC,
               !.bojlerConsumption = NumberOrZero(bojler),
               !.totalConsumption = JsAdd(hC, cC)]

mergeRecords_all(recs, existing, fd) ==
  [i \in 1..Len(recs) |-> mergedRecord(recs, recs[i], existing, fd)]

\* records.map(r => r.id !== existing.id ? r : {...r, ...}) of the merge path
mergeRecords(recs, existing, fd) ==
  [i \in 1..Len(recs) |->
     IF recs[i].id # existing.id THEN recs[i]
     ELSE mergedRecord(recs, recs[i], existing, fd)]

insertedRecord_noPrev(recs, fd, id) ==
  LET hC == consumptionOf(fd.householdConsumptionOverride, fd.householdState, Null)
      cC == consumptionOf(fd.carConsumptionOverride, fd.carState, Null)
  IN [id |-> id, year |-> fd.year, month |-> fd.month,
      householdState |-> NumberOrZero(fd.householdState), householdConsumption |-> hC,
      carState |-> NumberOrZero(fd.carState), carConsumption |-> cC,
      bojlerConsumption |-> NumberOrZero(fd.bojlerConsumption),
      totalConsumption |-> JsAdd(hC, cC)]

\* the insert path of addRecord: the record that is appended
insertedRecord(recs, fd, id) ==
  LET prevH == getPreviousReading(recs, fd.year, fd.month, "householdState", NoId)
      prevC == getPreviousReading(recs, fd.year, fd.month, "carState", NoId)
      hC == consumptionOf(fd.householdConsumptionOverride, fd.householdState, prevH)
      cC == consumptionOf(fd.carConsumptionOverride, fd.carState, prevC)
  IN [id |-> id, year |-> fd.year, month |-> fd.month,
      householdState |-> NumberOrZero(fd.householdState), householdConsumption |-> hC,
      carState |-> NumberOrZero(fd.carState), carConsumption |-> cC,
      bojlerConsumption |-> NumberOrZero(fd.bojlerConsumption),
      totalConsumption |-> JsAdd(hC, cC)]

updatedRecord_totalWithBojler(recs, r, id, fd) ==
  LET prevH == getPreviousReading(recs, fd.year, fd.month, "householdState", id)
      prevC == getPreviousReading(recs, fd.year, fd.month, "carState", id)
      hC == consumptionOf(fd.householdConsumptionOverride, fd.householdState, prevH)
      cC == consumptionOf(fd.carConsumptionOverride, fd.carState, prevC)
  IN [r EXCEPT !.year = fd.year, !.month = fd.month,
               !.householdState = NumberOrZero(fd.householdState),
               !.householdConsumption = hC,
               !.carState = NumberOrZero(fd.carState),
               !.carConsumption = cC,
               !.bojlerConsumption = NumberOrZero(fd.bojlerConsumption),
               !.totalConsumption =
                  JsAdd(JsAdd(hC, cC), NumberOrZero(fd.bojlerConsumption))]

\* updateRecord: what replaces the record r with the given id
updatedRecord(recs, r, id, fd) ==
  LET prevH == getPreviousReading(recs, fd.year, fd.month, "householdState", id)
      prevC == getPreviousReading(recs, fd.year, fd.month, "carState", id)
      hC == consumptionOf(fd.householdConsumptionOverride, fd.householdState, prevH)
      cC == consumptionOf(fd.carConsumptionOverride, fd.carState, prevC)
  IN [r EXCEPT !.year = fd.year, !.month = fd.month,
               !.householdState = NumberOrZero(fd.householdState),
               !.householdConsumption = hC,
               !.carState = NumberOrZero(fd.carState),
               !.carConsumption = cC,
               !.bojlerConsumption = NumberOrZero(fd.bojlerConsumption),
               !.totalConsumption = JsAdd(hC, cC)]

\* records.map(r => r.id !== id ? r : {...r, ...}) of updateRecord
updateRecords_ownPrevious(recs, id, fd) ==
  [i \in 1..Len(recs) |->
     IF recs[i].id # id THEN recs[i] ELSE updatedRecord(recs, recs[i], NoId, fd)]

updateRecords(recs, id, fd) ==
  [i \in 1..Len(recs) |->
     IF recs[i].id # id THEN recs[i] ELSE updatedRecord(recs, recs[i], id, fd)]

\* addRecord(fd) called on recs, genId() yielding id: the records it sets and
\* the value it resolves to
addRecordResult(recs, fd, id) ==
  LET k == findExisting(recs, fd.year, fd.month) IN
  IF k # 0
  THEN LET existing == recs[k]
           updated == mergeRecords(recs, existing, fd)
           found == {i \in 1..Len(updated) : updated[i].id = existing.id}
       IN [records |-> updated,
           result |-> [record |-> updated[CHOOSE i \in found : \A j \in found : i <= j],
                       merged |-> TRUE],
           op |-> "merge"]
  ELSE LET rec == insertedRecord(recs, fd, id)
       IN [records |-> Append(recs, rec),
           result |-> [record |-> rec, merged |-> FALSE],
           op |-> "insert"]

NoProbe == [helper |-> "none"]

\* ------------------------------------------------------------ persistence
\* JSON.parse(JSON.stringify(recs)): a NaN is written as null, every other
\* stored value comes back as it was
JsonRoundTrip(recs) ==
  [i \in DOMAIN recs |->
     [f \in DOMAIN recs[i] |->
        IF f \in {"id", "year", "month"} THEN recs[i][f]
        ELSE IF recs[i][f] = NaN THEN Null ELSE recs[i][f]]]

\* the electricity_records item: never written, holding text JSON.parse
\* throws on, or holding what JSON.stringify made of a records array
NoSnapshot == [tag |-> "absent", recs |-> <<>>]
Unparsable == [tag |-> "unparsable", recs |-> <<>>]
Snapshot(recs) == [tag |-> "json", recs |-> JsonRoundTrip(recs)]

\* the sheet's columns, and the rows doPost appends for a POST body
Headers ==
  {"id", "year", "month", "householdState", "householdConsumption", "carState",
   "carConsumption", "bojlerConsumption", "totalConsumption"}

SheetRows(body) ==
  [i \in DOMAIN body |->
     [h \in Headers |->
        IF h \notin DOMAIN body[i] THEN Empty
        ELSE IF h \in {"id", "year", "month"} THEN body[i][h]
        ELSE IF body[i][h] = Null THEN Empty ELSE body[i][h]]]

\* the values of syncError: null, the load effect's message, persist's message
NoError == "none"
LoadError == "Sheets nedostupne"
SaveError == "localStorage OK, Sheets sync selhal."

\* the store once the load effect has finished against an empty sheet
Loaded ==
  /\ records = <<>>
  /\ nextId = 1
  /\ lastOp = "idle"
  /\ lastFd = NoForm
  /\ lastId = NoId
  /\ pre = <<>>
  /\ result = NoResult
  /\ local = NoSnapshot
  /\ remote = <<>>
  /\ inflight = <<>>
  /\ syncError = NoError
  /\ loading = FALSE
  /\ loadPc = "loaded"
  /\ lastWrite = "none"

Init ==
  /\ Loaded
  /\ probe = NoProbe
  /\ answer = Null

\* persist(recs) up to its await: the item is written and the POST is sent
persist(recs) ==
  /\ local' = Snapshot(recs)
  /\ inflight' = Append(inflight, JsonRoundTrip(recs))
  /\ lastWrite' = "pending"
  /\ UNCHANGED <<remote, syncError, loading, loadPc>>

\* the bodies of the four mutators, from the call to the await of persist
addRecordCall(fd) ==
  LET r == addRecordResult(records, fd, nextId) IN
  /\ r.op = "insert" => Len(records) < MaxRecords /\ nextId <= MaxId
  /\ records' = r.records
  /\ persist(r.records)
  /\ result' = r.result
  /\ lastOp' = r.op
  /\ nextId' = IF r.op = "insert" THEN nextId + 1 ELSE nextId
  /\ lastFd' = fd
  /\ lastId' = NoId
  /\ pre' = records
  /\ UNCHANGED <<probe, answer>>

updateRecordCall(id, fd) ==
  /\ records' = updateRecords(records, id, fd)
  /\ persist(updateRecords(records, id, fd))
  /\ lastOp' = "update"
  /\ lastFd' = fd
  /\ lastId' = id
  /\ pre' = records
  /\ result' = NoResult
  /\ UNCHANGED <<nextId, probe, answer>>

\* records.filter(r => r.id !== id)
deleteRecords_first(recs, id) == IF recs = <<>> THEN recs ELSE Tail(recs)

deleteRecords(recs, id) ==
  LET Keep(r) == r.id # id IN SelectSeq(recs, Keep)

deleteRecordCall(id) ==
  /\ records' = deleteRecords(records, id)
  /\ persist(deleteRecords(records, id))
  /\ lastOp' = "delete"
  /\ lastFd' = NoForm
  /\ lastId' = id
  /\ pre' = records
  /\ result' = NoResult
  /\ UNCHANGED <<nextId, probe, answer>>

\* the collections the import menu can be handed: any records at all, also
\* several for one period
ImportedRecord(id, year, month) ==
  [id |-> id, year |-> year, month |-> month, householdState |-> Num(MaxReading),
   householdConsumption |-> Num(0), carState |-> Num(0), carConsumption |-> Num(0),
   bojlerConsumption |-> Num(0), totalConsumption |-> Num(0)]

ImportDocs ==
  {<<>>}
  \cup {<<ImportedRecord(1, p[1], p[2])>> : p \in Periods}
  \cup {<<ImportedRecord(1, p[1], p[2]), ImportedRecord(2, q[1], q[2])>> :
          p \in Periods, q \in Periods}

importDataCall(data) ==
  /\ records' = data
  /\ persist(data)
  /\ nextId' = IF Len(data) + 1 > nextId THEN Len(data) + 1 ELSE nextId
  /\ lastOp' = "import"
  /\ lastFd' = NoForm
  /\ lastId' = NoId
  /\ pre' = records
  /\ result' = NoResult
  /\ UNCHANGED <<probe, answer>>

\* a mutator called while no other call is awaiting its persist
addRecord(fd) == lastOp = "idle" /\ addRecordCall(fd)

updateRecord(id, fd) == lastOp = "idle" /\ updateRecordCall(id, fd)

deleteRecord(id) == lastOp = "idle" /\ deleteRecordCall(id)

importData(data) == lastOp = "idle" /\ importDataCall(data)

\* the sequence without its i-th element
RemoveAt(seq, i) ==
  [j \in 1..(Len(seq) - 1) |-> IF j < i THEN seq[j] ELSE seq[j + 1]]

\* the calls awaiting persist return once no POST is left unanswered
returned(left) ==
  IF left = <<>>
  THEN /\ lastOp' = "idle"
       /\ lastFd' = NoForm
       /\ lastId' = NoId
       /\ pre' = <<>>
       /\ result' = NoResult
  ELSE UNCHANGED <<lastOp, lastFd, lastId, pre, result>>

\* the sheet takes the i-th POST in flight and its fetch resolves
postStored(i) ==
  /\ i \in 1..Len(inflight)
  /\ remote' = SheetRows(inflight[i])
  /\ inflight' = RemoveAt(inflight, i)
  /\ lastWrite' = "stored"
  /\ returned(RemoveAt(inflight, i))
  /\ UNCHANGED <<records, nextId, local, syncError, loading, loadPc, probe, answer>>

\* the i-th POST in flight is lost: its fetch rejects (the network fails) and
\* persist's catch runs, or it resolves with the answer of a server that
\* did not store (fetch resolves whatever the status) and the catch is skipped
PostFailures == {"rejected", "resolvedUnstored"}

postFailed(i, how) ==
  /\ i \in 1..Len(inflight)
  /\ syncError' = IF how = "rejected" THEN SaveError ELSE syncError
  /\ inflight' = RemoveAt(inflight, i)
  /\ lastWrite' = how
  /\ returned(RemoveAt(inflight, i))
  /\ UNCHANGED <<records, nextId, local, remote, loading, loadPc, probe, answer>>

\* the awaited persist settles and the call returns to its caller
settle ==
  /\ lastOp # "idle"
  /\ Len(inflight) = 1
  /\ postStored(1)

\* the ids the table or a stale edit form can still hold
KnownIds == 1..(nextId - 1)

NextSubmit ==
  \/ \E fd \in PlainForms : addRecord(fd)
  \/ settle

SpecSubmit == Init /\ [][NextSubmit]_vars

NextMut ==
  \/ \E fd \in OverrideForms : addRecord(fd)
  \/ \E id \in KnownIds, fd \in OverrideForms : updateRecord(id, fd)
  \/ \E id \in KnownIds : deleteRecord(id)
  \/ settle

SpecMut == Init /\ [][NextMut]_vars

Next ==
  \/ \E fd \in OverrideForms : addRecord(fd)
  \/ \E id \in KnownIds, fd \in OverrideForms : updateRecord(id, fd)
  \/ \E id \in KnownIds : deleteRecord(id)
  \/ \E data \in ImportDocs : importData(data)
  \/ settle

Spec == Init /\ [][Next]_vars

\* forms whose typed numbers are below zero: a reading, the boiler's
\* consumption and the household override
SignedForms ==
  {Form(p, h, NumStr(1), b, ho, Null) :
     p \in Periods, h \in {NumStr(-1), NumStr(MaxReading)},
     b \in {Empty, NumStr(-1)}, ho \in {Null, NumStr(-1)}}

NextSigned ==
  \/ \E fd \in SignedForms : addRecord(fd)
  \/ \E id \in KnownIds, fd \in SignedForms : updateRecord(id, fd)
  \/ settle

SpecSigned == Init /\ [][NextSigned]_vars

\* a string that is not a number, as a caller of addRecord or an imported
\* file can hold it
Text == [tag |-> "text", n |-> 0]

\* forms whose states or bojler consumption are such strings
TextForms ==
  {Form(p, h, c, b, Null, Null) :
     p \in Periods, h \in {Empty, Text, NumStr(MaxReading)},
     c \in {Text, NumStr(1)}, b \in {Empty, Text}}

NextText ==
  \/ \E fd \in TextForms : addRecord(fd)
  \/ settle

SpecText == Init /\ [][NextText]_vars

\* the awaited persist ends without the sheet having stored the POST
settleFailed(how) ==
  /\ lastOp # "idle"
  /\ Len(inflight) = 1
  /\ postFailed(1, how)

\* forms with a household state only
SyncForms ==
  {Form(p, h, Empty, Empty, Null, Null) :
     p \in Periods, h \in {NumStr(1), NumStr(MaxReading)}}

\* the four mutators, one call at a time, over a network that can fail
NextSync ==
  \/ \E fd \in SyncForms : addRecord(fd)
  \/ \E id \in KnownIds, fd \in SyncForms : updateRecord(id, fd)
  \/ \E id \in KnownIds : deleteRecord(id)
  \/ \E data \in ImportDocs : importData(data)
  \/ settle
  \/ \E how \in PostFailures : settleFailed(how)

SpecSync == Init /\ [][NextSync]_vars

MaxInFlight == 2

\* a mutator called whether or not an earlier call still awaits its persist:
\* nothing in the store or the views holds a second call back
addRecordOverlapping(fd) == Len(inflight) < MaxInFlight /\ addRecordCall(fd)

deleteRecordOverlapping(id) == Len(inflight) < MaxInFlight /\ deleteRecordCall(id)

\* overlapping calls over a network on which every POST is stored, in the
\* order the sheet takes them
NextRace ==
  \/ \E fd \in SyncForms : addRecordOverlapping(fd)
  \/ \E id \in KnownIds : deleteRecordOverlapping(id)
  \/ \E i \in 1..MaxInFlight : postStored(i)

SpecRace == Init /\ [][NextRace]_vars

\* ---------------------------------------------------------- the load effect
\* what localStorage and the sheet can hold when the page is opened
LocalSnapshots == {NoSnapshot, Unparsable} \cup {Snapshot(d) : d \in ImportDocs}

SheetContents == ImportDocs

\* useDataStore as constructed: no records, loading, the GET under way
InitStartup ==
  /\ records = <<>>
  /\ nextId = 1
  /\ lastOp = "idle"
  /\ lastFd = NoForm
  /\ lastId = NoId
  /\ pre = <<>>
  /\ result = NoResult
  /\ local \in LocalSnapshots
  /\ remote \in SheetContents
  /\ inflight = <<>>
  /\ syncError = NoError
  /\ loading = TRUE
  /\ loadPc = "fetching"
  /\ lastWrite = "none"
  /\ probe = NoProbe
  /\ answer = Null

\* how the GET and r.json() can end: with the sheet's records, with a
\* rejected fetch, with a body r.json() rejects
LoadOutcomes == {"ok", "networkFailure", "unparsableResponse"}

\* the load effect from the end of its await on: setRecords(json.records) or
\* the catch with its fallback to localStorage, then setLoading(false); the
\* JSON.parse inside the catch throws on an unparsable item and the function
\* ends there
loadSettles(outcome) ==
  /\ loadPc = "fetching"
  /\ IF outcome = "ok"
     THEN /\ records' = remote
          /\ nextId' = IF Len(remote) + 1 > nextId THEN Len(remote) + 1 ELSE nextId
          /\ loading' = FALSE
          /\ loadPc' = "loaded"
          /\ UNCHANGED syncError
     ELSE /\ syncError' = LoadError
          /\ CASE local.tag = "absent" ->
                    /\ loading' = FALSE
                    /\ loadPc' = "fellBack"
                    /\ UNCHANGED <<records, nextId>>
               [] local.tag = "json" ->
                    /\ records' = local.recs
                    /\ nextId' = IF Len(local.recs) + 1 > nextId
                               THEN Len(local.recs) + 1 ELSE nextId
                    /\ loading' = FALSE
                    /\ loadPc' = "fellBack"
               [] OTHER ->
                    /\ loadPc' = "threw"
                    /\ UNCHANGED <<records, nextId, loading>>
  /\ UNCHANGED <<lastOp, lastFd, lastId, pre, result, local, remote, inflight,
                 lastWrite, probe, answer>>

NextStartup == \E outcome \in LoadOutcomes : loadSettles(outcome)

\* the browser always settles the fetch
SpecStartup == InitStartup /\ [][NextStartup]_vars /\ WF_vars(NextStartup)

\* ------------------------------------------------------------ the import menu
\* an object of a parsed file that is not a record
JunkItem == [note |-> NumStr(1)]

\* the files the menu can be handed: text JSON.parse throws on, an array of
\* objects that are not records, and arrays of records
ImportFiles ==
  {Unparsable, [tag |-> "json", recs |-> <<JunkItem>>]}
  \cup {Snapshot(d) : d \in ImportDocs}

\* WaffleMenu.handleImport, reader.onload: JSON.parse throws and the catch
\* alerts, or what was parsed is handed to importData as it is
handleImport(file) ==
  /\ lastOp = "idle"
  /\ IF file.tag = "unparsable"
     THEN /\ lastOp' = "importRejected"
          /\ pre' = records
          /\ UNCHANGED <<records, nextId, lastFd, lastId, result, local, remote,
                         inflight, syncError, loading, loadPc, lastWrite, probe,
                         answer>>
     ELSE importDataCall(file.recs)

\* the alert is closed
dismissAlert ==
  /\ lastOp = "importRejected"
  /\ lastOp' = "idle"
  /\ pre' = <<>>
  /\ UNCHANGED <<records, nextId, lastFd, lastId, result, local, remote,
                 inflight, syncError, loading, loadPc, lastWrite, probe, answer>>

NextImport ==
  \/ \E file \in ImportFiles : handleImport(file)
  \/ dismissAlert
  \/ settle

SpecImport == Init /\ [][NextImport]_vars

\* forms without overrides whose two states are typed in
ReadingForms ==
  {Form(p, h, NumStr(1), Empty, Null, Null) :
     p \in Periods, h \in {NumStr(1), NumStr(MaxReading)}}

NextReadings ==
  \/ \E fd \in ReadingForms : addRecord(fd)
  \/ \E id \in KnownIds, fd \in ReadingForms : updateRecord(id, fd)
  \/ \E id \in KnownIds : deleteRecord(id)
  \/ settle

SpecReadings == Init /\ [][NextReadings]_vars

\* the page as opened: the header's menu takes an import while the load
\* effect still awaits the GET, and afterwards
NextBoot ==
  \/ \E outcome \in LoadOutcomes : loadSettles(outcome)
  \/ \E data \in ImportDocs : importData(data)
  \/ settle

SpecBoot == InitStartup /\ [][NextBoot]_vars

\* the page is loaded anew while no call is under way: useDataStore starts
\* over, localStorage and the sheet keep what they hold
restart ==
  /\ lastOp = "idle"
  /\ loadPc # "fetching"
  /\ records' = <<>>
  /\ syncError' = NoError
  /\ loading' = TRUE
  /\ loadPc' = "fetching"
  /\ UNCHANGED <<nextId, lastOp, lastFd, lastId, pre, result, local, remote,
                 inflight, lastWrite, probe, answer>>

\* mutations from the form and the table, shown once loading is over, over a
\* network that can fail, with restarts in between
NextRestart ==
  \/ \E fd \in SyncForms : loading = FALSE /\ addRecord(fd)
  \/ \E id \in KnownIds : loading = FALSE /\ deleteRecord(id)
  \/ settle
  \/ \E how \in PostFailures : settleFailed(how)
  \/ restart
  \/ \E outcome \in LoadOutcomes : loadSettles(outcome)

SpecRestart == Init /\ [][NextRestart]_vars

\* ------------------------------------------------ helpers called alone
MaxCalcReading == 4

\* the readings calcConsumption is handed: absent, "", a typed number or a
\* stored number
CalcCurrent ==
  {Null, Empty} \cup {NumStr(k) : k \in 0..MaxCalcReading}
                \cup {Num(k) : k \in 0..MaxCalcReading}
CalcPrevious == {Null} \cup {Num(k) : k \in 0..MaxCalcReading}

InitCalc ==
  /\ Loaded
  /\ probe \in [helper : {"calcConsumption"}, currentState : CalcCurrent,
                prevState : CalcPrevious, called : {FALSE}]
  /\ answer = Null

callCalcConsumption ==
  /\ probe.called = FALSE
  /\ probe' = [probe EXCEPT !.called = TRUE]
  /\ answer' = calcConsumption(probe.currentState, probe.prevState)
  /\ UNCHANGED storeVars

SpecCalc == InitCalc /\ [][callCalcConsumption]_vars

MaxProbeRecords == 3

\* a record whose two states identify it
ProbeRecord(id, year, month) ==
  [id |-> id, year |-> year, month |-> month, householdState |-> Num(id),
   householdConsumption |-> Num(0), carState |-> Num(MaxProbeRecords + id),
   carConsumption |-> Num(0), bojlerConsumption |-> Num(0),
   totalConsumption |-> Num(0)]

\* record sets in any array order, with one record per period and per id
ProbeRecordSets ==
  LET Shapes == UNION {[1..n -> Periods] : n \in 0..MaxProbeRecords}
      OneEach == {f \in Shapes : \A i, j \in DOMAIN f : i # j => f[i] # f[j]}
  IN {[i \in DOMAIN f |-> ProbeRecord(i, f[i][1], f[i][2])] : f \in OneEach}

InitPrev ==
  /\ Loaded
  /\ probe \in {[helper |-> "getPreviousReading", recs |-> rs, year |-> p[1],
                 month |-> p[2], stateField |-> f, excludeId |-> x,
                 called |-> FALSE] :
                  rs \in ProbeRecordSets, p \in Periods,
                  f \in {"householdState", "carState"},
                  x \in {NoId} \cup (1..MaxProbeRecords)}
  /\ answer = Null

callGetPreviousReading ==
  /\ probe.called = FALSE
  /\ probe' = [probe EXCEPT !.called = TRUE]
  /\ answer' = getPreviousReading(probe.recs, probe.year, probe.month,
                                  probe.stateField, probe.excludeId)
  /\ UNCHANGED storeVars

SpecPrev == InitPrev /\ [][callGetPreviousReading]_vars

\* ------------------------------------------------------- chart helpers
\* name.slice(0, 3) of MONTHS_CZ, diacritics left off: June and July share
\* a label
MonthLabels ==
  <<"Led", "Uno", "Bre", "Dub", "Kve", "Cer", "Cer", "Srp", "Zar", "Rij", "Lis",
    "Pro">>

Undefined == [tag |-> "undefined", n |-> 0]

\* String(n) for n >= 0, as its decimal digits
RECURSIVE Digits(_)
Digits(n) == IF n < 10 THEN <<n>> ELSE Append(Digits(n \div 10), n % 10)

\* a < b as Array.prototype.sort() without a comparator orders them: by their
\* strings, code unit by code unit
RECURSIVE SeqLess(_, _)
SeqLess(a, b) ==
  IF b = <<>> THEN FALSE
  ELSE IF a = <<>> THEN TRUE
  ELSE IF Head(a) # Head(b) THEN Head(a) < Head(b)
  ELSE SeqLess(Tail(a), Tail(b))

StringLess(m, n) == SeqLess(Digits(m), Digits(n))

\* [...new Set(values)]: the distinct values in the order they first occur
RECURSIVE Distinct(_)
Distinct(values) ==
  IF values = <<>> THEN <<>>
  ELSE LET n == Len(values)
           front == Distinct(SubSeq(values, 1, n - 1))
       IN IF \E i \in 1..Len(front) : front[i] = values[n]
          THEN front ELSE Append(front, values[n])

\* .sort() of distinct numbers
RECURSIVE DefaultSort(_)
DefaultSort(values) ==
  IF values = <<>> THEN <<>>
  ELSE LET least == CHOOSE i \in 1..Len(values) :
                      \A j \in 1..Len(values) :
                        j # i => StringLess(values[i], values[j])
       IN <<values[least]>> \o DefaultSort(RemoveAt(values, least))

\* .slice(-2)
LastTwo(values) ==
  IF Len(values) <= 2 THEN values ELSE SubSeq(values, Len(values) - 1, Len(values))

\* records.find(r => r.year === y && r.month === m): index, 0 if none
findByMonth(recs, y, m) == findExisting(recs, y, m)

\* f ? (f[field] ?? 0) : undefined
cellOf(recs, k, field) ==
  IF k = 0 THEN Undefined
  ELSE IF recs[k][field] = Null THEN Num(0) ELSE recs[k][field]

YearsOf(recs) == [i \in 1..Len(recs) |-> recs[i].year]

SeqRange(values) == {values[i] : i \in 1..Len(values)}

prepareMonthly_firstTwo(recs, field) ==
  LET years == SeqRange(SubSeq(DefaultSort(Distinct(YearsOf(recs))), 1,
                               IF Len(Distinct(YearsOf(recs))) < 2
                               THEN Len(Distinct(YearsOf(recs))) ELSE 2))
  IN [i \in 1..Len(MonthLabels) |->
        [month |-> MonthLabels[i],
         cells |-> [y \in years |-> cellOf(recs, findByMonth(recs, y, i), field)]]]

\* prepareMonthly(records, field): the rows, each with its label and its cell
\* under every year of years
prepareMonthly(recs, field) ==
  LET years == SeqRange(LastTwo(DefaultSort(Distinct(YearsOf(recs)))))
  IN [i \in 1..Len(MonthLabels) |->
        [month |-> MonthLabels[i],
         cells |-> [y \in years |-> cellOf(recs, findByMonth(recs, y, i), field)]]]

NumChartYears == 3
MaxChartRecords == 3
MaxChartValue == 1

ChartYears == FirstYear..(FirstYear + NumChartYears - 1)

\* the months the chart's records fall in: the first and the last of a year
ChartMonths == {1, Len(MonthLabels)}

\* a record whose consumptions differ from one another
ChartRecord(id, year, month, v) ==
  [id |-> id, year |-> year, month |-> month, householdState |-> Num(0),
   householdConsumption |-> Num(v), carState |-> Num(0),
   carConsumption |-> Num(v + 1), bojlerConsumption |-> Num(2 * v),
   totalConsumption |-> Num(2 * v + 1)]

\* records in any array order, several for one period allowed
ChartRecordSets ==
  LET Shape == ChartYears \X ChartMonths \X (0..MaxChartValue)
      Shapes == UNION {[1..n -> Shape] : n \in 0..MaxChartRecords}
  IN {[i \in DOMAIN f |-> ChartRecord(i, f[i][1], f[i][2], f[i][3])] : f \in Shapes}

ChartFields == {"householdConsumption", "totalConsumption"}

InitMonthly ==
  /\ Loaded
  /\ probe \in {[helper |-> "prepareMonthly", recs |-> rs, field |-> f,
                 called |-> FALSE] : rs \in ChartRecordSets, f \in ChartFields}
  /\ answer = Null

callPrepareMonthly ==
  /\ probe.called = FALSE
  /\ probe' = [probe EXCEPT !.called = TRUE]
  /\ answer' = prepareMonthly(probe.recs, probe.field)
  /\ UNCHANGED storeVars

SpecMonthly == InitMonthly /\ [][callPrepareMonthly]_vars

\* v || 0 on a stored consumption: a number, NaN or null
OrZero(v) == IF v.tag = "num" /\ v.n # 0 THEN v ELSE Num(0)

\* Number(digits) of a decimal string
RECURSIVE FromDigits(_)
FromDigits(d) ==
  IF d = <<>> THEN 0
  ELSE 10 * FromDigits(SubSeq(d, 1, Len(d) - 1)) + d[Len(d)]

\* records.forEach(...) over the first n records: the entries of map, in the
\* order their years were first met
RECURSIVE annualEntries(_, _)
annualEntries(recs, n) ==
  IF n = 0 THEN <<>>
  ELSE LET before == annualEntries(recs, n - 1)
           r == recs[n]
           at == {k \in 1..Len(before) : before[k].year = Digits(r.year)}
           started == IF at = {}
                      THEN Append(before, [year |-> Digits(r.year),
                                           household |-> Num(0), car |-> Num(0),
                                           bojler |-> Num(0)])
                      ELSE before
       IN [k \in 1..Len(started) |->
             IF started[k].year # Digits(r.year) THEN started[k]
             ELSE [started[k] EXCEPT
                     !.household = JsAdd(@, OrZero(r.householdConsumption)),
                     !.car = JsAdd(@, OrZero(r.carConsumption)),
                     !.bojler = JsAdd(@, OrZero(r.bojlerConsumption))]]

\* .sort((a, b) => Number(a.year) - Number(b.year)) of entries of distinct years
RECURSIVE sortByYear(_)
sortByYear(entries) ==
  IF entries = <<>> THEN <<>>
  ELSE LET least == CHOOSE i \in 1..Len(entries) :
                      \A j \in 1..Len(entries) :
                        FromDigits(entries[i].year) <= FromDigits(entries[j].year)
       IN <<entries[least]>> \o sortByYear(RemoveAt(entries, least))

prepareAnnualData_unsorted(recs) == annualEntries(recs, Len(recs))

\* prepareAnnualData(records)
prepareAnnualData(recs) == sortByYear(annualEntries(recs, Len(recs)))

InitAnnual ==
  /\ Loaded
  /\ probe \in {[helper |-> "prepareAnnualData", recs |-> rs, called |-> FALSE] :
                  rs \in ChartRecordSets}
  /\ answer = Null

callPrepareAnnualData ==
  /\ probe.called = FALSE
  /\ probe' = [probe EXCEPT !.called = TRUE]
  /\ answer' = prepareAnnualData(probe.recs)
  /\ UNCHANGED storeVars

SpecAnnual == InitAnnual /\ [][callPrepareAnnualData]_vars

\* ---------------------------------------------------------------- claims
Period(r) == <<r.year, r.month>>

AtMostOnePerPeriod(recs) ==
  \A i, j \in 1..Len(recs) : i # j => Period(recs[i]) # Period(recs[j])

Occupied(recs, year, month) ==
  \E i \in 1..Len(recs) : recs[i].year = year /\ recs[i].month = month

IsAdd == lastOp \in {"insert", "merge"}

\* C1: after any sequence of addRecord calls from the empty set no two records
\* share a (year, month), and a submit for an occupied period takes the merge
\* path and leaves the number of records as it was.
C1_OnePerPeriodUnderSubmit ==
  /\ AtMostOnePerPeriod(records)
  /\ (IsAdd /\ Occupied(pre, lastFd.year, lastFd.month))
       => (lastOp = "merge" /\ Len(records) = Len(pre))

\* a submit for an occupied period, with another record present
C1_Witness ==
  /\ lastOp = "merge"
  /\ Len(records) = 2
  /\ Occupied(pre, lastFd.year, lastFd.month)

IsNum(v) == v.tag = "num"

TotalIsSum(r) ==
  /\ IsNum(r.totalConsumption) /\ IsNum(r.householdConsumption)
  /\ IsNum(r.carConsumption)
  /\ r.totalConsumption.n = r.householdConsumption.n + r.carConsumption.n

\* C2: after every addRecord, updateRecord and deleteRecord every record has
\* totalConsumption = householdConsumption + carConsumption, bojlerConsumption
\* not being part of the sum.
C2_TotalIsSum == \A i \in 1..Len(records) : TotalIsSum(records[i])

\* an update with both overrides of a record whose bojler consumption is not 0
C2_Witness ==
  /\ lastOp = "update"
  /\ \E i \in 1..Len(records) :
       /\ records[i].id = lastId
       /\ NotNull(lastFd.householdConsumptionOverride)
       /\ NotNull(lastFd.carConsumptionOverride)
       /\ records[i].bojlerConsumption.n > 0
       /\ records[i].totalConsumption.n = 2 * (MaxReading + 1)

Absent(v) == v.tag = "null"

\* C3: for non-negative readings or absent values calcConsumption returns a
\* number >= 0: 0 when the previous state is absent, the current state is
\* absent or empty, or current <= previous, and current - previous otherwise.
C3_CalcConsumption ==
  (probe.helper = "calcConsumption" /\ probe.called) =>
    LET cur == probe.currentState
        prv == probe.prevState
    IN /\ IsNum(answer) /\ answer.n >= 0
       /\ IF Absent(prv) \/ Absent(cur) \/ cur.tag = "empty" \/ cur.n <= prv.n
          THEN answer.n = 0
          ELSE answer.n = cur.n - prv.n

\* a typed reading above the stored earlier one
C3_Witness ==
  /\ probe.helper = "calcConsumption" /\ probe.called
  /\ probe.currentState = NumStr(3) /\ probe.prevState = Num(1)
  /\ answer = Num(2)

MonthsSinceZero(year, month) == 12 * year + month

\* the records getPreviousReading may answer from: not excluded, strictly
\* earlier than the target period
EarlierOthers(recs, year, month, excludeId) ==
  {i \in 1..Len(recs) :
     /\ recs[i].id # excludeId
     /\ MonthsSinceZero(recs[i].year, recs[i].month) < MonthsSinceZero(year, month)}

\* C4: on a record set with one record per period getPreviousReading returns
\* the state of the latest record strictly before the target among those whose
\* id is not the excluded one, null when there is none, and never the state of
\* the excluded record.
C4_PreviousReading ==
  (probe.helper = "getPreviousReading" /\ probe.called) =>
    LET recs == probe.recs
        cands == EarlierOthers(recs, probe.year, probe.month, probe.excludeId)
    IN /\ cands = {} => answer = Null
       /\ cands # {} =>
            \E i \in cands :
              /\ \A j \in cands : MonthsSinceZero(recs[j].year, recs[j].month)
                                    <= MonthsSinceZero(recs[i].year, recs[i].month)
              /\ answer = recs[i][probe.stateField]
       /\ \A i \in 1..Len(recs) :
            recs[i].id = probe.excludeId => answer # recs[i][probe.stateField]

\* the target's own record and the record of the month before it, which is
\* the excluded one, come first in the array; the state returned is that of the
\* record two months back, in the year before
C4_Witness ==
  /\ probe.helper = "getPreviousReading" /\ probe.called
  /\ Len(probe.recs) = 3
  /\ <<probe.year, probe.month>> = PeriodAt(2)
  /\ Period(probe.recs[1]) = PeriodAt(2)
  /\ Period(probe.recs[2]) = PeriodAt(1)
  /\ Period(probe.recs[3]) = PeriodAt(0)
  /\ probe.recs[3].year < probe.year
  /\ probe.excludeId = 2
  /\ probe.stateField = "carState"
  /\ answer = probe.recs[3].carState

\* the index of the record of the submitted period in recs (0 if none)
Target(recs, fd) ==
  LET hit == {i \in 1..Len(recs) : Period(recs[i]) = <<fd.year, fd.month>>}
  IN IF hit = {} THEN 0 ELSE CHOOSE i \in hit : TRUE

\* the states field holds in the latest period strictly before (year, month)
\* among the records of recs other than the one with id skip
LatestEarlierStates(recs, year, month, field, skip) ==
  LET cands == EarlierOthers(recs, year, month, skip)
      latest == {i \in cands :
                   \A j \in cands : MonthsSinceZero(recs[j].year, recs[j].month)
                                      <= MonthsSinceZero(recs[i].year, recs[i].month)}
  IN {recs[i][field].n : i \in latest}

\* the consumptions a state can be derived to against those earlier states:
\* 0 when there is none, else the difference, clamped at 0
DerivedFrom(state, earlier) ==
  IF earlier = {} THEN {0}
  ELSE {IF state > p THEN state - p ELSE 0 : p \in earlier}

\* C5: addRecord for a period that has a record keeps the number of records,
\* replaces that record in place under the same id and period with recomputed
\* household, car and total consumption, leaves every other record exactly as
\* it was and returns the replaced record with merged = true.
C5_MergeFrame ==
  lastOp = "merge" =>
    LET k == Target(pre, lastFd) IN
    /\ k # 0
    /\ Len(records) = Len(pre)
    /\ \A i \in 1..Len(pre) : i # k => records[i] = pre[i]
    /\ records[k].id = pre[k].id
    /\ Period(records[k]) = Period(pre[k])
    /\ records[k].householdConsumption.n \in
         DerivedFrom(records[k].householdState.n,
                     LatestEarlierStates(pre, lastFd.year, lastFd.month,
                                         "householdState", pre[k].id))
    /\ records[k].carConsumption.n \in
         DerivedFrom(records[k].carState.n,
                     LatestEarlierStates(pre, lastFd.year, lastFd.month,
                                         "carState", pre[k].id))
    /\ TotalIsSum(records[k])
    /\ result = [record |-> records[k], merged |-> TRUE]

\* the later of two records is submitted again with a higher state: its
\* consumption goes from 0 to 1 and the earlier record stays as it was
C5_Witness ==
  /\ lastOp = "merge"
  /\ Len(pre) = 2
  /\ Period(pre[1]) = PeriodAt(1) /\ pre[1].householdState = Num(1)
  /\ Period(pre[2]) = PeriodAt(2) /\ pre[2].householdState = Num(1)
  /\ pre[2].householdConsumption = Num(0)
  /\ <<lastFd.year, lastFd.month>> = PeriodAt(2)
  /\ lastFd.householdState = NumStr(2)
  /\ records[2].householdConsumption = Num(1)
  /\ records[1] = pre[1]
  /\ result.merged

\* what a blank or typed input is stored as on insert
StoredOnInsert(v) == IF v.tag = "empty" THEN 0 ELSE v.n

\* C6: addRecord for a period without a record appends exactly one record with
\* an id no record had, leaves the others unchanged, stores blank states and a
\* blank bojler consumption as 0, derives each consumption that is not
\* overridden from the latest earlier record (0 without one) and returns the
\* record without a merged flag.
C6_InsertPath ==
  lastOp = "insert" =>
    LET new == records[Len(records)] IN
    /\ Target(pre, lastFd) = 0
    /\ records = Append(pre, new)
    /\ \A i \in 1..Len(pre) : pre[i].id # new.id
    /\ Period(new) = <<lastFd.year, lastFd.month>>
    /\ new.householdState = Num(StoredOnInsert(lastFd.householdState))
    /\ new.carState = Num(StoredOnInsert(lastFd.carState))
    /\ new.bojlerConsumption = Num(StoredOnInsert(lastFd.bojlerConsumption))
    /\ Absent(lastFd.householdConsumptionOverride) =>
         new.householdConsumption.n \in
           DerivedFrom(new.householdState.n,
                       LatestEarlierStates(pre, lastFd.year, lastFd.month,
                                           "householdState", NoId))
    /\ Absent(lastFd.carConsumptionOverride) =>
         new.carConsumption.n \in
           DerivedFrom(new.carState.n,
                       LatestEarlierStates(pre, lastFd.year, lastFd.month,
                                           "carState", NoId))
    /\ TotalIsSum(new)
    /\ result = [record |-> new, merged |-> FALSE]

\* state 2 is submitted for the period after a record with state 1, the car
\* state and the bojler consumption left blank
C6_Witness ==
  /\ lastOp = "insert"
  /\ Len(pre) = 1
  /\ Period(pre[1]) = PeriodAt(1) /\ pre[1].householdState = Num(1)
  /\ <<lastFd.year, lastFd.month>> = PeriodAt(2)
  /\ lastFd.householdState = NumStr(2)
  /\ lastFd.carState = Empty /\ lastFd.bojlerConsumption = Empty
  /\ records[2].householdConsumption = Num(1)
  /\ records[2].carState = Num(0) /\ records[2].bojlerConsumption = Num(0)
  /\ ~result.merged

\* blank: the stored value is the one the record had; typed: the typed number
KeptOrTaken(incoming, before, after) ==
  IF incoming.tag = "empty" THEN after = before ELSE after = Num(incoming.n)

\* C7: on the merge path each of householdState, carState and
\* bojlerConsumption keeps the existing record's value when the incoming field
\* is blank and takes the incoming value when it is provided, independently of
\* the other two.
C7_MergeFields ==
  lastOp = "merge" =>
    LET k == Target(pre, lastFd) IN
    /\ KeptOrTaken(lastFd.householdState, pre[k].householdState,
                   records[k].householdState)
    /\ KeptOrTaken(lastFd.carState, pre[k].carState, records[k].carState)
    /\ KeptOrTaken(lastFd.bojlerConsumption, pre[k].bojlerConsumption,
                   records[k].bojlerConsumption)

\* household state typed over another value while the car state and the bojler
\* consumption, both non-zero, are left blank and kept
C7_Witness ==
  /\ lastOp = "merge"
  /\ LET k == Target(pre, lastFd) IN
     /\ lastFd.householdState = NumStr(2) /\ pre[k].householdState = Num(1)
     /\ lastFd.carState = Empty /\ pre[k].carState = Num(1)
     /\ lastFd.bojlerConsumption = Empty /\ pre[k].bojlerConsumption = Num(1)
     /\ records[k].householdState = Num(2)
     /\ records[k].carState = Num(1)
     /\ records[k].bojlerConsumption = Num(1)

\* every form the inputs of the model can make up
AllForms ==
  {Form(p, h, c, b, ho, co) :
     p \in Periods, h \in HouseholdTyped, c \in CarTyped, b \in BojlerTyped,
     ho \in Overrides, co \in Overrides}

\* C8: a second addRecord with the same form right after the first leaves every
\* record as the first left it, whether the first inserted or merged, and this
\* for every form on every record set the store reaches.
C8_SubmitTwice ==
  /\ IsAdd => addRecordResult(records, lastFd, nextId).records = records
  /\ lastOp = "idle" =>
       \A fd \in AllForms :
         LET first == addRecordResult(records, fd, nextId)
             second == addRecordResult(first.records, fd, nextId + 1)
         IN second.records = first.records /\ second.op = "merge"

\* a merge that changes nothing, of a form with a blank state and an override
C8_Witness ==
  /\ lastOp = "merge"
  /\ records = pre
  /\ Len(records) = 2
  /\ lastFd.householdState = Empty
  /\ NotNull(lastFd.householdConsumptionOverride)

\* the records the last call computed anew
Recomputed ==
  IF IsAdd THEN {result.record}
  ELSE IF lastOp = "update"
       THEN {records[i] : i \in {j \in 1..Len(records) : records[j].id = lastId}}
       ELSE {}

\* C9: in addRecord (both paths) and updateRecord a supplied override is stored
\* as the consumption of its meter whatever the state and the previous
\* reading, totalConsumption is the sum with it, and a meter without an
\* override keeps its derived consumption.
C9_OverrideWins ==
  \A t \in Recomputed :
    /\ \E i \in 1..Len(records) : records[i] = t
    /\ NotNull(lastFd.householdConsumptionOverride) =>
         t.householdConsumption = Num(lastFd.householdConsumptionOverride.n)
    /\ NotNull(lastFd.carConsumptionOverride) =>
         t.carConsumption = Num(lastFd.carConsumptionOverride.n)
    /\ Absent(lastFd.householdConsumptionOverride) =>
         t.householdConsumption.n \in
           DerivedFrom(t.householdState.n,
                       LatestEarlierStates(pre, lastFd.year, lastFd.month,
                                           "householdState", t.id))
    /\ Absent(lastFd.carConsumptionOverride) =>
         t.carConsumption.n \in
           DerivedFrom(t.carState.n,
                       LatestEarlierStates(pre, lastFd.year, lastFd.month,
                                           "carState", t.id))
    /\ TotalIsSum(t)

\* an update with a car override above the typed car state, the household
\* consumption still derived from an earlier record
C9_Witness ==
  /\ lastOp = "update"
  /\ lastFd.carState = NumStr(1)
  /\ lastFd.carConsumptionOverride = NumStr(MaxReading + 1)
  /\ Absent(lastFd.householdConsumptionOverride)
  /\ \E t \in Recomputed :
       /\ t.carConsumption = Num(MaxReading + 1)
       /\ t.householdConsumption = Num(MaxReading)
       /\ t.totalConsumption = Num(2 * MaxReading + 1)
       /\ LatestEarlierStates(pre, lastFd.year, lastFd.month, "householdState", t.id)
            = {0}

\* C10: under submit, update, delete and import at most one record exists per
\* (year, month) in every reachable state.
C10_OnePerPeriodAlways == AtMostOnePerPeriod(records)

NonNegative(v) == IsNum(v) /\ v.n >= 0

\* C11: after any sequence of addRecord and updateRecord with numeric inputs,
\* negative ones included, every record's householdConsumption, carConsumption
\* and bojlerConsumption are numbers >= 0.
C11_ConsumptionsNonNegative ==
  \A i \in 1..Len(records) :
    /\ NonNegative(records[i].householdConsumption)
    /\ NonNegative(records[i].carConsumption)
    /\ NonNegative(records[i].bojlerConsumption)

\* C17: updateRecord(id, fd) changes only the record with that id: it keeps
\* the id, takes year, month, both states and bojlerConsumption from fd, stores
\* for each meter the override or else the consumption derived from the latest
\* record strictly before the new period, itself left out, and their sum as
\* total; every other record is as it was, and with no record of that id the
\* records are unchanged.
C17_UpdateRecord ==
  lastOp = "update" =>
    /\ Len(records) = Len(pre)
    /\ (\A i \in 1..Len(pre) : pre[i].id # lastId) => records = pre
    /\ \A i \in 1..Len(pre) :
         IF pre[i].id # lastId THEN records[i] = pre[i]
         ELSE LET t == records[i] IN
              /\ t.id = lastId
              /\ Period(t) = <<lastFd.year, lastFd.month>>
              /\ t.householdState = Num(StoredOnInsert(lastFd.householdState))
              /\ t.carState = Num(StoredOnInsert(lastFd.carState))
              /\ t.bojlerConsumption = Num(StoredOnInsert(lastFd.bojlerConsumption))
              /\ IF NotNull(lastFd.householdConsumptionOverride)
                 THEN t.householdConsumption =
                        Num(lastFd.householdConsumptionOverride.n)
                 ELSE t.householdConsumption.n \in
                        DerivedFrom(t.householdState.n,
                                    LatestEarlierStates(pre, lastFd.year,
                                       lastFd.month, "householdState", lastId))
              /\ IF NotNull(lastFd.carConsumptionOverride)
                 THEN t.carConsumption = Num(lastFd.carConsumptionOverride.n)
                 ELSE t.carConsumption.n \in
                        DerivedFrom(t.carState.n,
                                    LatestEarlierStates(pre, lastFd.year,
                                       lastFd.month, "carState", lastId))
              /\ TotalIsSum(t)

\* the only record, stored with state 0, is moved one month on with state 2:
\* its consumption is 0, its own old state is not its previous reading
C17_Witness ==
  /\ lastOp = "update"
  /\ Len(pre) = 1
  /\ pre[1].id = lastId
  /\ Period(pre[1]) = PeriodAt(0)
  /\ pre[1].householdState = Num(0)
  /\ <<lastFd.year, lastFd.month>> = PeriodAt(1)
  /\ lastFd.householdState = NumStr(MaxReading)
  /\ Absent(lastFd.householdConsumptionOverride)
  /\ records[1].householdConsumption = Num(0)
  /\ records[1].householdState = Num(MaxReading)

\* the indices of the records of recs whose id is not id, and the n-th of them
KeptIndices(recs, id) == {i \in 1..Len(recs) : recs[i].id # id}

NthKept(recs, id, n) ==
  CHOOSE i \in KeptIndices(recs, id) :
    Cardinality({j \in KeptIndices(recs, id) : j <= i}) = n

\* C18: deleteRecord(id) leaves exactly the records whose id differs from id,
\* each unchanged and in the order they had; with no record of that id the
\* records are unchanged.
C18_DeleteRecord ==
  lastOp = "delete" =>
    /\ Len(records) = Cardinality(KeptIndices(pre, lastId))
    /\ \A n \in 1..Len(records) : records[n] = pre[NthKept(pre, lastId, n)]
    /\ (\A i \in 1..Len(pre) : pre[i].id # lastId) => records = pre

\* the second of two records is deleted and the first stays as it was
C18_Witness ==
  /\ lastOp = "delete"
  /\ Len(pre) = 2
  /\ pre[2].id = lastId
  /\ pre[1].id # lastId
  /\ records = <<pre[1]>>

\* the at most two greatest of the distinct years of recs
GreatestTwoYears(recs) ==
  LET ys == {recs[i].year : i \in 1..Len(recs)}
  IN {y \in ys : Cardinality({z \in ys : z > y}) < 2}

\* C19: prepareMonthly returns 12 rows in calendar order; each row's year
\* columns are the at most two greatest distinct years of the records; a cell
\* holds the field of a record of that year and month when there is one (a 0
\* is a 0) and is undefined when there is none.
C19_PrepareMonthly ==
  (probe.helper = "prepareMonthly" /\ probe.called) =>
    /\ Len(answer) = 12
    /\ \A i \in 1..Len(answer) :
         /\ answer[i].month = MonthLabels[i]
         /\ DOMAIN answer[i].cells = GreatestTwoYears(probe.recs)
         /\ \A y \in DOMAIN answer[i].cells :
              LET of == {k \in 1..Len(probe.recs) :
                           Period(probe.recs[k]) = <<y, i>>}
              IN IF of = {} THEN answer[i].cells[y] = Undefined
                 ELSE /\ answer[i].cells[y] # Undefined
                      /\ \E k \in of :
                           answer[i].cells[y] = probe.recs[k][probe.field]

\* records of three years, the oldest first in none of the orders: January of
\* the latest year holds a 0, December of it holds nothing
C19_Witness ==
  /\ probe.helper = "prepareMonthly" /\ probe.called
  /\ probe.field = "householdConsumption"
  /\ Len(probe.recs) = 3
  /\ probe.recs[1].year = FirstYear + 2 /\ probe.recs[1].month = 1
  /\ probe.recs[1].householdConsumption = Num(0)
  /\ probe.recs[2].year = FirstYear
  /\ probe.recs[3].year = FirstYear + 1
  /\ DOMAIN answer[1].cells = {FirstYear + 1, FirstYear + 2}
  /\ answer[1].cells[FirstYear + 2] = Num(0)
  /\ answer[12].cells[FirstYear + 2] = Undefined

\* the sum of field over the records of recs at the indices in among
RECURSIVE SumOver(_, _, _)
SumOver(recs, among, field) ==
  IF among = {} THEN 0
  ELSE LET i == CHOOSE k \in among : TRUE
       IN recs[i][field].n + SumOver(recs, among \ {i}, field)

InYear(recs, y) == {i \in 1..Len(recs) : recs[i].year = y}

\* the records of recs in the order given by the permutation order
Reordered(recs, order) == [i \in 1..Len(recs) |-> recs[order[i]]]

Orders(n) == {f \in [1..n -> 1..n] : \A i, j \in 1..n : i # j => f[i] # f[j]}

\* C20: prepareAnnualData returns one entry per distinct year of the records,
\* in ascending year order, each with the sums of household, car and bojler
\* consumption over that year's records, whatever the order of the records.
C20_PrepareAnnualData ==
  (probe.helper = "prepareAnnualData" /\ probe.called) =>
    LET recs == probe.recs IN
    /\ {FromDigits(answer[k].year) : k \in 1..Len(answer)}
         = {recs[i].year : i \in 1..Len(recs)}
    /\ \A k \in 1..Len(answer) :
         LET y == FromDigits(answer[k].year) IN
         /\ k > 1 => FromDigits(answer[k - 1].year) < y
         /\ answer[k].household =
              Num(SumOver(recs, InYear(recs, y), "householdConsumption"))
         /\ answer[k].car = Num(SumOver(recs, InYear(recs, y), "carConsumption"))
         /\ answer[k].bojler =
              Num(SumOver(recs, InYear(recs, y), "bojlerConsumption"))
    /\ \A order \in Orders(Len(recs)) :
         prepareAnnualData(Reordered(recs, order)) = answer

\* two records of the latest year around one of the first year: two entries,
\* the first year's first, the latest year's sums over both its records
C20_Witness ==
  /\ probe.helper = "prepareAnnualData" /\ probe.called
  /\ Len(probe.recs) = 3
  /\ probe.recs[1].year = FirstYear + 2
  /\ probe.recs[2].year = FirstYear
  /\ probe.recs[3].year = FirstYear + 2
  /\ probe.recs[1].householdConsumption = Num(1)
  /\ probe.recs[3].householdConsumption = Num(1)
  /\ Len(answer) = 2
  /\ answer[1].year = Digits(FirstYear)
  /\ answer[2].household = Num(2)
  /\ answer[2].car = Num(4)
  /\ answer[2].bojler = Num(4)

\* the form with a non-numeric state replaced by a blank one
Blanked(fd) ==
  [fd EXCEPT !.householdState = IF @ = Text THEN Empty ELSE @,
             !.carState = IF @ = Text THEN Empty ELSE @]

C13_FailedWrite ==
  lastWrite \in PostFailures =>
    /\ lastOp = "idle"
    /\ inflight = <<>>
    /\ local = Snapshot(records)
    /\ syncError # NoError
    /\ ENABLED importData(<<>>)

\* C12: every mutator hands the whole resulting array to persist before it
\* returns, and once every call has returned, all POSTs stored, the records in
\* memory, the localStorage item and the sheet hold the same records, also
\* when a second call is made while the first one's POST is in flight and the
\* two POSTs are taken in either order.
C12_DurableEqualsMemory ==
  /\ lastWrite = "pending" =>
       /\ inflight # <<>>
       /\ inflight[Len(inflight)] = JsonRoundTrip(records)
       /\ local = Snapshot(records)
  /\ (inflight = <<>> /\ lastWrite = "stored") =>
       /\ local = Snapshot(records)
       /\ remote = records

\* C14: whatever the GET ends with (the records, a network failure, an
\* unparsable response) and whatever localStorage holds (nothing, a valid
\* item, an unparsable item), once the load effect has run loading is false;
\* and when the load failed the records are the localStorage item's, if there
\* is one, and syncError is set.
C14_LoadingEnds ==
  /\ loadPc # "fetching" => loading = FALSE
  /\ loadPc \in {"fellBack", "threw"} =>
       /\ syncError = LoadError
       /\ local.tag = "json" => records = local.recs

\* an array of objects with the fields of a record
AreRecords(recs) == \A i \in 1..Len(recs) : DOMAIN recs[i] = Headers

\* C15: an import of a file that does not parse, or that parses to something
\* other than a collection of records, leaves the records in memory, the
\* localStorage item and the sheet as they were and notifies the user:
\* nothing of such a file is ever stored, and after the alert the records are
\* those from before with no POST sent.
C15_MalformedImport ==
  /\ AreRecords(records)
  /\ AreRecords(local.recs)
  /\ AreRecords(remote)
  /\ \A i \in 1..Len(inflight) : AreRecords(inflight[i])
  /\ lastOp = "importRejected" => records = pre /\ inflight = <<>>

\* C21: after any sequence of addRecord, updateRecord and deleteRecord without
\* overrides and with both states typed in, in whatever order the periods
\* come and also after an earlier period is revised or deleted, every
\* record's householdConsumption is max(0, its householdState minus that of
\* the latest earlier record now in the records), 0 without one, and likewise
\* its carConsumption.
C21_ConsumptionsCurrent ==
  \A i \in 1..Len(records) :
    /\ IsNum(records[i].householdConsumption)
    /\ records[i].householdConsumption.n \in
         DerivedFrom(records[i].householdState.n,
                     LatestEarlierStates(records, records[i].year,
                        records[i].month, "householdState", records[i].id))
    /\ IsNum(records[i].carConsumption)
    /\ records[i].carConsumption.n \in
         DerivedFrom(records[i].carState.n,
                     LatestEarlierStates(records, records[i].year,
                        records[i].month, "carState", records[i].id))

\* C22: importData puts exactly the imported collection in memory and in the
\* localStorage item, and with no further mutation the records in memory stay
\* that collection, also when the import is made while the load effect still
\* awaits the GET: the load's completion does not replace them.
C22_ImportStays ==
  lastWrite # "none" =>
    /\ local = Snapshot(records)
    /\ lastWrite = "pending" => inflight[Len(inflight)] = JsonRoundTrip(records)

\* C23: the records of the latest completed mutation, which the localStorage
\* item holds, are the ones the load after a restart puts in memory, whatever
\* became of that mutation's POST and of the GET: also when the POST was lost
\* and the sheet answers again, so that a later save cannot replace the item
\* by older records of the sheet.
C23_RestartKeepsLatest ==
  (loadPc # "fetching" /\ local.tag = "json") => local = Snapshot(records)

====
